---- MODULE Spec2Model ----
(***************************************************************************)
(* Authentication, session and token subsystem of mynodecp (package auth,  *)
(* Service in src/unnamed/part_009) over the models of src/unnamed/part_002.*)
(*                                                                         *)
(* Request handlers run concurrently; every round trip to the relational   *)
(* store or to the cache is one atomic step of the handler that makes it,  *)
(* and the in-memory computation that precedes a round trip belongs to the *)
(* same step (the clock is read once per step).  Time is counted in ticks  *)
(* of 15 minutes.  A nullable column holds <<>> (NULL) or <<v>>.  A token  *)
(* string is <<>> (the empty string) or <<jwt>>; a refresh token string is *)
(* 0 (the empty string) or the k-th value drawn from crypto/rand.          *)
(***************************************************************************)
EXTENDS Integers, Sequences, FiniteSets, TLC

VARIABLES
    now,          \* the wall clock, in ticks
    users,        \* table users: id -> row
    userRoles,    \* table user_roles: id -> set of role names
    sessions,     \* table sessions, in insertion order; the id is the index
    cache,        \* redis: session id -> <<>> or <<[user, until]>>
    events,       \* table security_events: number of rows per user id
    rand,         \* how many refresh tokens crypto/rand has produced
    pc,           \* per request slot: the handler's position
    loc,          \* per request slot: the handler's locals and its response
    maxInFlight,  \* how many requests the server serves at a time
    workload,     \* what the clients offer, and the store they find
    codec,        \* the token codec exercised on its own (CodecSpec)
    roleRows,     \* table roles: the names of its rows (unique index on name)
    permissions,  \* table permissions: rows [name, resource, action]
    rolePermissions, \* table role_permissions: role name -> permission names
    answer,       \* what the last UserService call returned
    config,       \* AuthConfig: the password policy
    storeUp,      \* whether the relational store answers
    cacheUp       \* whether the cache answers

(* The access-control tables, the configuration and the store's health *)
directory == <<roleRows, permissions, rolePermissions, answer, config, storeUp, cacheUp>>

vars == <<now, users, userRoles, sessions, cache, events, rand, pc, loc, maxInFlight,
          workload, codec, directory>>

----------------------------------------------------------------------------
(* Bounds of the model *)

MaxTime == 3
MaxSessions == 2
MaxFailedLogins == 6

(* Configuration (AuthConfig) and the constants of the code, in ticks *)

JWTExpiration == 1
RefreshExpiration == 2
SessionTimeout == 3
LockoutDuration == 2
LockThreshold == 5

JWTSecret == "your-super-secret-jwt-key-change-this-in-production"

Procs == {1, 2}
UserIds == {"u1", "u2"}
Passwords == {"correct horse", "hunter2"}
TwoFactorCodes == {"", "123456", "000000"}
IPs == {"10.0.0.1"}
NULL == <<>>

Username(u) == IF u = "u1" THEN "alice" ELSE "bob"
Email(u) == IF u = "u1" THEN "alice@x.com" ELSE "bob@x.com"
Identifiers == {"alice", "alice@x.com", "bob", "nobody"}
RoleNames == {"user", "admin"}

----------------------------------------------------------------------------
(* Password hasher: bcrypt, a one-way hash with a compare operation *)

GenerateFromPassword(pw) == <<"bcrypt", pw>>

CompareHashAndPassword(hash, pw) == hash = GenerateFromPassword(pw)

(* verifyTwoFactorCode: the placeholder accepts every code *)
verifyTwoFactorCode(secret, code) == TRUE

----------------------------------------------------------------------------
(* Token codec *)

HMACMethods == {"HS256", "HS384", "HS512"}
SigningMethods == HMACMethods \cup {"RS256", "none"}

(* The MAC of the signing input (header and payload) under a key *)
SignedString(key, alg, claims) == [key |-> key, alg |-> alg, claims |-> claims]

Claims(user, roles, sessionID, t) ==
    [user_id |-> user.id, username |-> user.username, email |-> user.email,
     roles |-> roles, session_id |-> sessionID,
     exp |-> t + JWTExpiration, iat |-> t, nbf |-> t, iss |-> "mynodecp"]

(* Variant of generateAccessToken that embeds an empty role list *)
generateAccessTokenWithoutRoles(user, roles, sessionID, t) ==
    LET claims == Claims(user, {}, sessionID, t)
    IN  <<[alg |-> "HS256", claims |-> claims,
           sig |-> SignedString(JWTSecret, "HS256", claims)]>>

generateAccessToken(user, roles, sessionID, t) ==
    LET claims == Claims(user, roles, sessionID, t)
    IN  <<[alg |-> "HS256", claims |-> claims,
           sig |-> SignedString(JWTSecret, "HS256", claims)]>>

(* Variant of ValidateToken that still accepts a token at its expiry time *)
ValidateTokenAtExpiry(tokenString, t) ==
    IF tokenString = <<>>
    THEN [err |-> "token is malformed", claims |-> <<>>]
    ELSE LET token == tokenString[1] IN
         IF token.alg \notin HMACMethods
         THEN [err |-> "unexpected signing method", claims |-> <<>>]
         ELSE IF token.sig # SignedString(JWTSecret, token.alg, token.claims)
         THEN [err |-> "signature is invalid", claims |-> <<>>]
         ELSE IF t > token.claims.exp
         THEN [err |-> "token is expired", claims |-> <<>>]
         ELSE IF t < token.claims.iat
         THEN [err |-> "token used before issued", claims |-> <<>>]
         ELSE [err |-> "", claims |-> <<token.claims>>]

(* Variant of ValidateToken that looks the session up and rejects the token
   of a revoked session *)
ValidateTokenWithSessionLookup(tokenString, t) ==
    IF tokenString = <<>>
    THEN [err |-> "token is malformed", claims |-> <<>>]
    ELSE LET token == tokenString[1] IN
         IF token.alg \notin HMACMethods
         THEN [err |-> "unexpected signing method", claims |-> <<>>]
         ELSE IF token.sig # SignedString(JWTSecret, token.alg, token.claims)
         THEN [err |-> "signature is invalid", claims |-> <<>>]
         ELSE IF ~(t < token.claims.exp)
         THEN [err |-> "token is expired", claims |-> <<>>]
         ELSE IF t < token.claims.iat
         THEN [err |-> "token used before issued", claims |-> <<>>]
         ELSE IF /\ token.claims.session_id \in 1..Len(sessions)
                 /\ sessions[token.claims.session_id].revokedAt # <<>>
         THEN [err |-> "session revoked", claims |-> <<>>]
         ELSE [err |-> "", claims |-> <<token.claims>>]

(* jwt.ParseWithClaims with the key function of ValidateToken, then the    *)
(* registered-claims validation of golang-jwt v5 (exp, iat, nbf).          *)
ValidateToken(tokenString, t) ==
    IF tokenString = <<>>
    THEN [err |-> "token is malformed", claims |-> <<>>]
    ELSE LET token == tokenString[1] IN
         IF token.alg \notin HMACMethods
         THEN [err |-> "unexpected signing method", claims |-> <<>>]
         ELSE IF token.sig # SignedString(JWTSecret, token.alg, token.claims)
         THEN [err |-> "signature is invalid", claims |-> <<>>]
         ELSE IF ~(t < token.claims.exp)
         THEN [err |-> "token is expired", claims |-> <<>>]
         ELSE IF t < token.claims.iat
         THEN [err |-> "token used before issued", claims |-> <<>>]
         ELSE IF t < token.claims.nbf
         THEN [err |-> "token is not valid yet", claims |-> <<>>]
         ELSE [err |-> "", claims |-> <<token.claims>>]

----------------------------------------------------------------------------
(* Rows *)

NewUser(u, pw, twoFactor) ==
    [id |-> u, username |-> Username(u), email |-> Email(u),
     passwordHash |-> GenerateFromPassword(pw),
     isActive |-> TRUE,
     isTwoFactorEnabled |-> twoFactor,
     twoFactorSecret |-> IF twoFactor THEN "JBSWY3DP" ELSE "",
     lastLoginAt |-> NULL, lastLoginIP |-> "",
     failedLoginCount |-> 0, lockedUntil |-> NULL, deletedAt |-> NULL]

NoResponse ==
    [err |-> "", accessToken |-> <<>>, refreshToken |-> 0, expiresAt |-> NULL,
     lockedUntil |-> NULL]

NoRequest == [username |-> "", password |-> "", code |-> "", ip |-> ""]

(* A handler's locals: the request (req, or arg for a refresh token or a
   session id), the rows it holds copies of, its response; start is the
   number of session rows when the request arrived *)
Idle ==
    [op |-> "", req |-> NoRequest, arg |-> 0, user |-> <<>>, roles |-> {},
     session |-> <<>>, start |-> 0, res |-> NoResponse]

Error(l, e) == [l EXCEPT !.res = [NoResponse EXCEPT !.err = e]]

----------------------------------------------------------------------------
(* Login, lines 73-155 *)

(* Where("username = ? OR email = ?").First: the rows that match, soft-deleted
   rows excluded *)
FindUser(identifier) ==
    {u \in DOMAIN users : /\ users[u].deletedAt = NULL
                          /\ \/ users[u].username = identifier
                             \/ users[u].email = identifier}

IsLocked(user, t) == user.lockedUntil # NULL /\ user.lockedUntil[1] > t

(* The checks between the lookup and the first write, in the code's order *)
LoginCheck(user, password, code, t) ==
    IF ~user.isActive THEN "account is disabled"
    ELSE IF IsLocked(user, t) THEN "account is locked"
    ELSE IF ~CompareHashAndPassword(user.passwordHash, password) THEN "invalid credentials"
    ELSE IF user.isTwoFactorEnabled /\ code = "" THEN "two-factor code required"
    ELSE IF user.isTwoFactorEnabled /\ ~verifyTwoFactorCode(user.twoFactorSecret, code)
         THEN "invalid two-factor code"
    ELSE ""

(* Variant of incrementFailedLogin that locks one failure later *)
incrementFailedLoginLate(user, t) ==
    LET count == user.failedLoginCount + 1
    IN  [user EXCEPT !.failedLoginCount = count,
                     !.lockedUntil = IF count > LockThreshold
                                     THEN <<t + LockoutDuration>> ELSE @]

(* Variant of incrementFailedLogin that counts and never locks *)
incrementFailedLoginWithoutLock(user, t) ==
    [user EXCEPT !.failedLoginCount = @ + 1]

incrementFailedLogin(user, t) ==
    LET count == user.failedLoginCount + 1
    IN  [user EXCEPT !.failedLoginCount = count,
                     !.lockedUntil = IF count >= LockThreshold
                                     THEN <<t + LockoutDuration>> ELSE @]

ResetLogin(user, ip, t) ==
    [user EXCEPT !.failedLoginCount = 0, !.lockedUntil = NULL,
                 !.lastLoginAt = <<t>>, !.lastLoginIP = ip]

(* A worker takes its next request when its last one has returned *)
CanStart(p) == p <= maxInFlight /\ pc[p] \in {"idle", "done"}

(* Sessions still to be inserted by logins past their checks *)
PendingSessions == Cardinality({q \in Procs : pc[q] \in {"login_reset", "login_create"}})

LoginFindUser(p) ==
    /\ CanStart(p)
    /\ \E identifier \in workload.identifiers, password \in workload.passwords,
          code \in workload.codes, ip \in IPs :
        LET l == [Idle EXCEPT !.op = "login", !.start = Len(sessions),
                              !.req = [username |-> identifier, password |-> password,
                                       code |-> code, ip |-> ip]] IN
        IF ~storeUp \/ FindUser(identifier) = {}
        THEN /\ pc' = [pc EXCEPT ![p] = "done"]
             /\ loc' = [loc EXCEPT ![p] = Error(l, "invalid credentials")]
        ELSE \E u \in FindUser(identifier) :
            LET user == users[u]
                verdict == LoginCheck(user, password, code, now)
                found == [l EXCEPT !.user = <<user>>, !.roles = userRoles[u]]
            IN  CASE verdict = "" ->
                       /\ Len(sessions) + PendingSessions < workload.sessions
                       /\ pc' = [pc EXCEPT ![p] = "login_reset"]
                       /\ loc' = [loc EXCEPT ![p] = found]
                  [] verdict = "invalid credentials" ->
                       /\ user.failedLoginCount < workload.failed
                       /\ pc' = [pc EXCEPT ![p] = "login_increment"]
                       /\ loc' = [loc EXCEPT ![p] = found]
                  [] verdict = "account is locked" ->
                       /\ pc' = [pc EXCEPT ![p] = "done"]
                       /\ loc' = [loc EXCEPT ![p] =
                                    [found EXCEPT !.res = [NoResponse EXCEPT
                                        !.err = verdict,
                                        !.lockedUntil = user.lockedUntil]]]
                  [] OTHER ->
                       /\ pc' = [pc EXCEPT ![p] = "done"]
                       /\ loc' = [loc EXCEPT ![p] = Error(found, verdict)]
    /\ UNCHANGED <<now, users, userRoles, sessions, cache, events, rand, maxInFlight, workload, codec, directory>>

(* incrementFailedLogin: Save(user) writes every column of the row from the
   handler's copy, and its Roles association (inserted when absent) *)
LoginIncrementFailed(p) ==
    /\ pc[p] = "login_increment"
    /\ LET user == incrementFailedLogin(loc[p].user[1], now) IN
        /\ users' = [users EXCEPT ![user.id] = user]
        /\ userRoles' = [userRoles EXCEPT ![user.id] = @ \cup loc[p].roles]
        /\ loc' = [loc EXCEPT ![p].user = <<user>>]
    /\ pc' = [pc EXCEPT ![p] = "login_event"]
    /\ UNCHANGED <<now, sessions, cache, events, rand, maxInFlight, workload, codec, directory>>

(* Migrate: the tables AutoMigrate creates; security_events is not one *)
Migrated ==
    {"users", "roles", "permissions", "user_roles", "role_permissions", "sessions",
     "audit_logs"}

(* Create(securityEvent): an insert into a table that does not exist fails *)
CreateSecurityEvent(rows, u) ==
    IF "security_events" \in Migrated THEN [rows EXCEPT ![u] = @ + 1] ELSE rows

(* Variant of LoginSecurityEvent whose error tells a wrong password apart *)
LoginSecurityEventRevealing(p) ==
    /\ pc[p] = "login_event"
    /\ events' = CreateSecurityEvent(events, loc[p].user[1].id)
    /\ pc' = [pc EXCEPT ![p] = "done"]
    /\ loc' = [loc EXCEPT ![p] = Error(@, "wrong password")]
    /\ UNCHANGED <<now, users, userRoles, sessions, cache, rand, maxInFlight, workload, codec, directory>>

(* Variant of LoginSecurityEvent that returns the error of a failed insert *)
LoginSecurityEventPropagating(p) ==
    /\ pc[p] = "login_event"
    /\ events' = CreateSecurityEvent(events, loc[p].user[1].id)
    /\ pc' = [pc EXCEPT ![p] = "done"]
    /\ loc' = [loc EXCEPT ![p] =
                 Error(@, IF events' = events THEN "failed to record security event"
                          ELSE "invalid credentials")]
    /\ UNCHANGED <<now, users, userRoles, sessions, cache, rand, maxInFlight, workload, codec, directory>>

(* incrementFailedLogin: Create(securityEvent), its error dropped *)
LoginSecurityEvent(p) ==
    /\ pc[p] = "login_event"
    /\ events' = CreateSecurityEvent(events, loc[p].user[1].id)
    /\ pc' = [pc EXCEPT ![p] = "done"]
    /\ loc' = [loc EXCEPT ![p] = Error(@, "invalid credentials")]
    /\ UNCHANGED <<now, users, userRoles, sessions, cache, rand, maxInFlight, workload, codec, directory>>

(* Model(&user).Updates(map): four columns of the row, and the handler's copy *)
LoginReset(p) ==
    /\ pc[p] = "login_reset"
    /\ LET u == loc[p].user[1].id IN
        /\ users' = [users EXCEPT ![u] = ResetLogin(@, loc[p].req.ip, now)]
        /\ loc' = [loc EXCEPT ![p].user = <<ResetLogin(loc[p].user[1], loc[p].req.ip, now)>>]
    /\ pc' = [pc EXCEPT ![p] = "login_create"]
    /\ UNCHANGED <<now, userRoles, sessions, cache, events, rand, maxInFlight, workload, codec, directory>>

----------------------------------------------------------------------------
(* Sessions *)

(* The unique indexes on sessions.token and sessions.refresh_token *)
UniqueViolation(rows) ==
    \E i, j \in 1..Len(rows) :
        /\ i # j
        /\ \/ rows[i].token = rows[j].token
           \/ rows[i].refreshToken = rows[j].refreshToken

(* createSession: the row as inserted, its tokens still empty; the id is set
   by the BeforeCreate hook, created_at by the store *)
(* Variant of NewSession whose row expires with the access token *)
NewSessionShortLived(id, user, ip, t) ==
    [id |-> id, userID |-> user.id, token |-> <<>>, refreshToken |-> 0,
     ipAddress |-> ip, expiresAt |-> t + JWTExpiration, lastUsedAt |-> t,
     createdAt |-> t, revokedAt |-> <<>>]

NewSession(id, user, ip, t) ==
    [id |-> id, userID |-> user.id, token |-> <<>>, refreshToken |-> 0,
     ipAddress |-> ip, expiresAt |-> t + RefreshExpiration, lastUsedAt |-> t,
     createdAt |-> t, revokedAt |-> NULL]

LoginCreateSession(p) ==
    /\ pc[p] = "login_create"
    /\ LET session == NewSession(Len(sessions) + 1, loc[p].user[1], loc[p].req.ip, now) IN
        IF UniqueViolation(Append(sessions, session))
        THEN /\ pc' = [pc EXCEPT ![p] = "done"]
             /\ loc' = [loc EXCEPT ![p] = Error(@, "failed to create session")]
             /\ UNCHANGED sessions
        ELSE /\ sessions' = Append(sessions, session)
             /\ pc' = [pc EXCEPT ![p] = "login_save"]
             /\ loc' = [loc EXCEPT ![p].session = <<session>>]
    /\ UNCHANGED <<now, users, userRoles, cache, events, rand, maxInFlight, workload, codec, directory>>

(* Save(session): every column of the row is written from the handler's copy *)
SaveSession(rows, session) == [rows EXCEPT ![session.id] = session]

(* Login lines 126-142: both tokens are generated, then saved to the row *)
LoginTokens(session, user, roles, refreshToken, t) ==
    [session EXCEPT !.token = generateAccessToken(user, roles, session.id, t),
                    !.refreshToken = refreshToken]

LoginSaveSession(p) ==
    /\ pc[p] = "login_save"
    /\ rand' = rand + 1
    /\ LET session == LoginTokens(loc[p].session[1], loc[p].user[1], loc[p].roles,
                                  rand + 1, now) IN
        IF UniqueViolation(SaveSession(sessions, session))
        THEN /\ pc' = [pc EXCEPT ![p] = "done"]
             /\ loc' = [loc EXCEPT ![p] = Error(@, "failed to save session")]
             /\ UNCHANGED sessions
        ELSE /\ sessions' = SaveSession(sessions, session)
             /\ pc' = [pc EXCEPT ![p] = "login_cache"]
             /\ loc' = [loc EXCEPT ![p].session = <<session>>]
    /\ UNCHANGED <<now, users, userRoles, cache, events, maxInFlight, workload, codec, directory>>

(* storeSessionInRedis: SET session:<id> <user id> EX SessionTimeout *)
storeSessionInRedis(c, session, t) ==
    [c EXCEPT ![session.id] = <<[user |-> session.userID, until |-> t + SessionTimeout]>>]

Response(session, refreshToken) ==
    [NoResponse EXCEPT !.accessToken = session.token,
                       !.refreshToken = refreshToken,
                       !.expiresAt = <<session.expiresAt>>]

LoginStoreSession(p) ==
    /\ pc[p] = "login_cache"
    /\ IF cacheUp
       THEN /\ cache' = storeSessionInRedis(cache, loc[p].session[1], now)
            /\ loc' = [loc EXCEPT ![p].res =
                         Response(loc[p].session[1], loc[p].session[1].refreshToken)]
       ELSE /\ cache' = cache
            /\ loc' = [loc EXCEPT ![p] = Error(@, "failed to store session in Redis")]
    /\ pc' = [pc EXCEPT ![p] = "done"]
    /\ UNCHANGED <<now, users, userRoles, sessions, events, rand, maxInFlight, workload, codec, directory>>

----------------------------------------------------------------------------
(* RefreshToken, lines 225-259 *)

(* Where("refresh_token = ? AND revoked_at IS NULL AND expires_at > ?") *)
(* Variant of RefreshableSession that does not look at the revocation *)
RefreshableSessionIgnoringRevocation(session, refreshToken, t) ==
    /\ session.refreshToken = refreshToken
    /\ session.expiresAt > t

(* Variant of RefreshableSession that also wants the owner active and not
   soft-deleted *)
RefreshableSessionOfActiveUser(session, refreshToken, t) ==
    /\ session.refreshToken = refreshToken
    /\ session.revokedAt = NULL
    /\ session.expiresAt > t
    /\ users[session.userID].isActive
    /\ users[session.userID].deletedAt = NULL

RefreshableSession(session, refreshToken, t) ==
    /\ session.refreshToken = refreshToken
    /\ session.revokedAt = NULL
    /\ session.expiresAt > t

FindSession(refreshToken, t) ==
    {i \in 1..Len(sessions) : RefreshableSession(sessions[i], refreshToken, t)}

(* Preload("User.Roles"): the owner when it is not soft-deleted, else the
   zero User *)
ZeroUser == [id |-> "", username |-> "", email |-> ""]

PreloadUser(u) ==
    IF u \in DOMAIN users /\ users[u].deletedAt = NULL THEN users[u] ELSE ZeroUser

PreloadRoles(u) ==
    IF u \in DOMAIN users /\ users[u].deletedAt = NULL THEN userRoles[u] ELSE {}

RefreshFindSession(p) ==
    /\ CanStart(p)
    /\ \E refreshToken \in 0..(MaxSessions + 1) :
        LET l == [Idle EXCEPT !.op = "refresh", !.arg = refreshToken,
                              !.start = Len(sessions)] IN
        IF ~storeUp \/ FindSession(refreshToken, now) = {}
        THEN /\ pc' = [pc EXCEPT ![p] = "done"]
             /\ loc' = [loc EXCEPT ![p] = Error(l, "invalid refresh token")]
        ELSE \E i \in FindSession(refreshToken, now) :
             /\ pc' = [pc EXCEPT ![p] = "refresh_save"]
             /\ loc' = [loc EXCEPT ![p] =
                          [l EXCEPT !.session = <<sessions[i]>>,
                                    !.user = <<PreloadUser(sessions[i].userID)>>,
                                    !.roles = PreloadRoles(sessions[i].userID)]]
    /\ UNCHANGED <<now, users, userRoles, sessions, cache, events, rand, maxInFlight, workload, codec, directory>>

(* Lines 235-243: a new access token, last-used time; the rest of the copy
   is as it was read *)
(* Variant of RefreshedSession that slides the expiry of the row *)
RefreshedSessionSliding(session, user, roles, t) ==
    [session EXCEPT !.token = generateAccessToken(user, roles, session.id, t),
                    !.lastUsedAt = t,
                    !.expiresAt = t + RefreshExpiration]

RefreshedSession(session, user, roles, t) ==
    [session EXCEPT !.token = generateAccessToken(user, roles, session.id, t),
                    !.lastUsedAt = t]

RefreshSaveSession(p) ==
    /\ pc[p] = "refresh_save"
    /\ LET session == RefreshedSession(loc[p].session[1], loc[p].user[1],
                                       loc[p].roles, now) IN
        IF UniqueViolation(SaveSession(sessions, session))
        THEN /\ pc' = [pc EXCEPT ![p] = "done"]
             /\ loc' = [loc EXCEPT ![p] = Error(@, "failed to update session")]
             /\ UNCHANGED sessions
        ELSE /\ sessions' = SaveSession(sessions, session)
             /\ pc' = [pc EXCEPT ![p] = "refresh_cache"]
             /\ loc' = [loc EXCEPT ![p].session = <<session>>]
    /\ UNCHANGED <<now, users, userRoles, cache, events, rand, maxInFlight, workload, codec, directory>>

RefreshStoreSession(p) ==
    /\ pc[p] = "refresh_cache"
    /\ IF cacheUp
       THEN /\ cache' = storeSessionInRedis(cache, loc[p].session[1], now)
            /\ loc' = [loc EXCEPT ![p].res = Response(loc[p].session[1], loc[p].arg)]
       ELSE /\ cache' = cache
            /\ loc' = [loc EXCEPT ![p] = Error(@, "failed to update session in Redis")]
    /\ pc' = [pc EXCEPT ![p] = "done"]
    /\ UNCHANGED <<now, users, userRoles, sessions, events, rand, maxInFlight, workload, codec, directory>>

----------------------------------------------------------------------------
(* Logout, lines 262-278 *)

(* Model(&Session{}).Where("id = ?").Update("revoked_at", now) *)
RevokeSession(rows, sessionID, t) ==
    [i \in 1..Len(rows) |->
        IF rows[i].id = sessionID THEN [rows[i] EXCEPT !.revokedAt = <<t>>] ELSE rows[i]]

LogoutRevoke(p) ==
    /\ CanStart(p)
    /\ \E sessionID \in 1..MaxSessions :
        LET l == [Idle EXCEPT !.op = "logout", !.arg = sessionID,
                              !.start = Len(sessions)] IN
        IF ~storeUp
        THEN /\ sessions' = sessions
             /\ loc' = [loc EXCEPT ![p] = Error(l, "failed to revoke session")]
             /\ pc' = [pc EXCEPT ![p] = "done"]
        ELSE /\ sessions' = RevokeSession(sessions, sessionID, now)
             /\ loc' = [loc EXCEPT ![p] = l]
             /\ pc' = [pc EXCEPT ![p] = "logout_cache"]
    /\ UNCHANGED <<now, users, userRoles, cache, events, rand, maxInFlight, workload, codec, directory>>

(* redis.Del("session:<id>") *)
DelSession(c, sessionID) == [c EXCEPT ![sessionID] = <<>>]

LogoutDelSession(p) ==
    /\ pc[p] = "logout_cache"
    /\ IF cacheUp
       THEN /\ cache' = DelSession(cache, loc[p].arg)
            /\ loc' = loc
       ELSE /\ cache' = cache
            /\ loc' = [loc EXCEPT ![p] = Error(@, "failed to remove session from Redis")]
    /\ pc' = [pc EXCEPT ![p] = "done"]
    /\ UNCHANGED <<now, users, userRoles, sessions, events, rand, maxInFlight, workload, codec, directory>>

----------------------------------------------------------------------------
(* Time passes *)
(* Variant of Tick in which a lockout that elapses takes the counter with it *)
TickClearingElapsedLockouts ==
    /\ now < workload.time
    /\ now' = now + 1
    /\ users' = [u \in DOMAIN users |->
                    IF users[u].lockedUntil # NULL /\ users[u].lockedUntil[1] <= now'
                    THEN [users[u] EXCEPT !.failedLoginCount = 0, !.lockedUntil = NULL]
                    ELSE users[u]]
    /\ UNCHANGED <<userRoles, sessions, cache, events, rand, pc, loc, maxInFlight, workload, codec, directory>>

Tick ==
    /\ now < workload.time
    /\ now' = now + 1
    /\ UNCHANGED <<users, userRoles, sessions, cache, events, rand, pc, loc, maxInFlight, workload, codec, directory>>

----------------------------------------------------------------------------
----------------------------------------------------------------------------
(* The token codec on its own: a token is issued for a user, a session id and
   a role list, possibly tampered with, and validated as time passes (the
   middleware hands ValidateToken whatever bearer string a request carries) *)

NoClaims == [err |-> "", claims |-> <<>>]

NoCodec ==
    [phase |-> "off", user |-> <<>>, roles |-> {}, sessionID |-> 0, issuedAt |-> 0,
     token |-> <<>>, forged |-> <<>>, at |-> 0, res |-> NoClaims]

CodecIssue ==
    /\ codec.phase = "off"
    /\ \E u \in UserIds, twoFactor \in BOOLEAN, roles \in SUBSET RoleNames,
          sessionID \in 1..MaxSessions :
        LET user == NewUser(u, "correct horse", twoFactor) IN
        codec' = [NoCodec EXCEPT !.phase = "issued", !.user = <<user>>, !.roles = roles,
                                 !.sessionID = sessionID, !.issuedAt = now,
                                 !.token = generateAccessToken(user, roles, sessionID, now)]
    /\ UNCHANGED <<now, users, userRoles, sessions, cache, events, rand, pc, loc,
                   maxInFlight, workload, directory>>

(* What someone who holds an issued token can make of it: other claims under
   the old signature, a signature under another secret, another scheme named
   in the header, or a token signed afresh under another scheme *)
Forge(token, kind, alg) ==
    CASE kind = "claims" ->
           [token EXCEPT !.claims.roles = IF @ = {"admin"} THEN {} ELSE {"admin"}]
      [] kind = "secret" ->
           [token EXCEPT !.sig = SignedString("not the secret", token.alg, token.claims)]
      [] kind = "header" ->
           [token EXCEPT !.alg = alg]
      [] kind = "scheme" ->
           [token EXCEPT !.alg = alg, !.sig = SignedString(JWTSecret, alg, token.claims)]

CodecForge ==
    /\ codec.phase = "issued"
    /\ codec.forged = <<>>
    /\ \E kind \in {"claims", "secret", "header", "scheme"},
          alg \in SigningMethods \ {"HS256"} :
        codec' = [codec EXCEPT !.forged = <<kind, alg>>,
                               !.token = <<Forge(codec.token[1], kind, alg)>>]
    /\ UNCHANGED <<now, users, userRoles, sessions, cache, events, rand, pc, loc,
                   maxInFlight, workload, directory>>

CodecValidate ==
    /\ codec.phase \in {"issued", "validated"}
    /\ codec' = [codec EXCEPT !.phase = "validated", !.at = now,
                              !.res = ValidateToken(codec.token, now)]
    /\ UNCHANGED <<now, users, userRoles, sessions, cache, events, rand, pc, loc,
                   maxInFlight, workload, directory>>

(* The store as a workload finds it: users registered earlier, some of them
   one failed login short of the lockout *)
InitStore(wl) ==
    /\ now = 0
    /\ workload = wl
    /\ \E twoFactor \in [wl.users -> wl.twoFactor], failed \in [wl.users -> wl.counts] :
        users = [u \in wl.users |->
                    [NewUser(u, IF u = "u1" THEN "correct horse" ELSE "hunter2", twoFactor[u])
                        EXCEPT !.failedLoginCount = failed[u]]]
    /\ userRoles = [u \in wl.users |-> IF u = "u1" THEN {"user"} ELSE {"user", "admin"}]
    /\ sessions = <<>>
    /\ cache = [i \in 1..MaxSessions |-> <<>>]
    /\ events = [u \in wl.users |-> 0]
    /\ rand = 0
    /\ pc = [p \in Procs |-> "idle"]
    /\ loc = [p \in Procs |-> Idle]
    /\ codec = NoCodec

(* AuthConfig as config.go sets its defaults: the password policy *)
PasswordMinLength == 8

DefaultConfig ==
    [passwordMinLength |-> PasswordMinLength, passwordRequireUpper |-> TRUE,
     passwordRequireLower |-> TRUE, passwordRequireDigit |-> TRUE,
     passwordRequireSpecial |-> TRUE]

NoAnswer ==
    [op |-> "", user |-> "", role |-> "", resource |-> "", action |-> "",
     err |-> "", allowed |-> FALSE, permissions |-> <<>>]

(* The access-control tables of a store whose roles grant nothing yet, the
   default configuration, a store that answers *)
InitDirectory ==
    /\ roleRows = RoleNames
    /\ permissions = {}
    /\ rolePermissions = [r \in RoleNames |-> {}]
    /\ answer = NoAnswer
    /\ config = DefaultConfig
    /\ storeUp = TRUE
    /\ cacheUp = TRUE

(* What the clients of a workload send, and how much of it: logins of the
   users of the store under these identifiers, passwords and codes, failed
   logins while the stored counter is below `failed`, successful logins while
   fewer than `sessions` rows exist, over `time` ticks *)
Offer(us, ids, pws, codes, failed, nsessions, time) ==
    [users |-> us, counts |-> {0}, twoFactor |-> BOOLEAN, identifiers |-> ids,
     passwords |-> pws, codes |-> codes, failed |-> failed, sessions |-> nsessions,
     time |-> time]

(* Workloads of one request at a time: many failed logins and one session,
   or many sessions and one failed login *)
SeqWorkloads ==
    {Offer({"u1"}, {"alice", "alice@x.com", "nobody"}, Passwords, TwoFactorCodes,
           MaxFailedLogins, 1, MaxTime),
     Offer({"u1"}, {"alice", "alice@x.com", "nobody"}, Passwords, TwoFactorCodes,
           1, MaxSessions, MaxTime)}

(* Workloads of concurrent requests: logins of a user one failed login short
   of the lockout; logins, refreshes and logouts of sessions *)
Workloads ==
    {[Offer({"u1"}, {"alice"}, Passwords, {""}, LockThreshold + 1, 1, 0)
        EXCEPT !.counts = {LockThreshold - 1}, !.twoFactor = {FALSE}],
     [Offer({"u1"}, {"alice"}, {"correct horse"}, {""}, 0, 1, MaxTime)
        EXCEPT !.twoFactor = {FALSE}]}

Init ==
    /\ maxInFlight = Cardinality(Procs)
    /\ \E wl \in Workloads : InitStore(wl)
    /\ InitDirectory

Next ==
    \/ \E p \in Procs :
        \/ LoginFindUser(p)
        \/ LoginIncrementFailed(p)
        \/ LoginSecurityEvent(p)
        \/ LoginReset(p)
        \/ LoginCreateSession(p)
        \/ LoginSaveSession(p)
        \/ LoginStoreSession(p)
        \/ RefreshFindSession(p)
        \/ RefreshSaveSession(p)
        \/ RefreshStoreSession(p)
        \/ LogoutRevoke(p)
        \/ LogoutDelSession(p)
    \/ Tick

(* The handlers of concurrent requests interleave at their round trips *)
Spec == Init /\ [][Next]_vars

(* The token codec, from any time of issue *)
CodecInit ==
    /\ maxInFlight = 0
    /\ \E wl \in {Offer({}, {}, {}, {}, 0, 0, MaxTime)} : InitStore(wl)
    /\ InitDirectory

CodecNext == CodecIssue \/ CodecForge \/ CodecValidate \/ Tick

CodecSpec == CodecInit /\ [][CodecNext]_vars

(* One request at a time *)
SeqInit ==
    /\ maxInFlight = 1
    /\ \E wl \in SeqWorkloads : InitStore(wl)
    /\ InitDirectory

SeqSpec == SeqInit /\ [][Next]_vars

----------------------------------------------------------------------------
(* UserService (services/user.go): role assignment and permission queries.
   A role's id is its name, a permission's id is its name; each call is one
   client's whole call. *)

MaxPermissions == 2

PermissionRows ==
    {[name |-> "domain.create", resource |-> "domain", action |-> "create"],
     [name |-> "domain.delete", resource |-> "domain", action |-> "delete"],
     [name |-> "dns.create", resource |-> "dns", action |-> "create"]}

Resources == {"domain", "dns"}
Actions == {"create", "delete"}
AllRoleNames == RoleNames \cup {"editor"}

(* The rows of permissions JOIN role_permissions JOIN user_roles for a user:
   one row per (permission, role) pair, so a permission occurs as many times
   as the user has roles that grant it *)
JoinedRows(userID) ==
    {pr \in permissions \X roleRows :
        /\ userID \in DOMAIN userRoles
        /\ pr[2] \in userRoles[userID]
        /\ pr[1].name \in rolePermissions[pr[2]]}

Occurrences(rows) ==
    [p \in {pr[1] : pr \in rows} |-> Cardinality({pr \in rows : pr[1] = p})]

(* Distinct(): each row of the result once *)
Distinct(result) == [p \in DOMAIN result |-> 1]

(* Variant of GetUserPermissions without Distinct *)
GetUserPermissionsJoined(userID) == Occurrences(JoinedRows(userID))

GetUserPermissions(userID) == Distinct(Occurrences(JoinedRows(userID)))

(* Count(&count) over the join filtered by resource and action; count > 0 *)
HasPermission(userID, resource, action) ==
    Cardinality({pr \in JoinedRows(userID) :
                    pr[1].resource = resource /\ pr[1].action = action}) > 0

AssignRoleCheck(userID, roleID) ==
    IF ~(userID \in DOMAIN users /\ users[userID].deletedAt = NULL) THEN "user not found"
    ELSE IF roleID \notin roleRows THEN "role not found"
    ELSE IF roleID \in userRoles[userID] THEN "user already has this role"
    ELSE ""

AssignRole ==
    /\ \E userID \in UserIds, roleID \in AllRoleNames :
        LET err == AssignRoleCheck(userID, roleID) IN
        /\ userRoles' = IF err = "" THEN [userRoles EXCEPT ![userID] = @ \cup {roleID}]
                        ELSE userRoles
        /\ answer' = [NoAnswer EXCEPT !.op = "AssignRole", !.user = userID,
                                      !.role = roleID, !.err = err]
    /\ UNCHANGED <<now, users, sessions, cache, events, rand, pc, loc, maxInFlight,
                   workload, codec, roleRows, permissions, rolePermissions, config,
                   storeUp, cacheUp>>

(* Delete(&UserRole{}) of the rows that match; none matching is no error *)
RemoveRole ==
    /\ \E userID \in UserIds, roleID \in AllRoleNames :
        /\ userRoles' = [u \in DOMAIN userRoles |->
                            IF u = userID THEN userRoles[u] \ {roleID} ELSE userRoles[u]]
        /\ answer' = [NoAnswer EXCEPT !.op = "RemoveRole", !.user = userID,
                                      !.role = roleID]
    /\ UNCHANGED <<now, users, sessions, cache, events, rand, pc, loc, maxInFlight,
                   workload, codec, roleRows, permissions, rolePermissions, config,
                   storeUp, cacheUp>>

GetUserPermissionsCall ==
    /\ \E userID \in UserIds :
        answer' = [NoAnswer EXCEPT !.op = "GetUserPermissions", !.user = userID,
                                   !.permissions = GetUserPermissions(userID)]
    /\ UNCHANGED <<now, users, userRoles, sessions, cache, events, rand, pc, loc,
                   maxInFlight, workload, codec, roleRows, permissions,
                   rolePermissions, config, storeUp, cacheUp>>

HasPermissionCall ==
    /\ \E userID \in UserIds, resource \in Resources, action \in Actions :
        answer' = [NoAnswer EXCEPT !.op = "HasPermission", !.user = userID,
                                   !.resource = resource, !.action = action,
                                   !.allowed = HasPermission(userID, resource, action)]
    /\ UNCHANGED <<now, users, userRoles, sessions, cache, events, rand, pc, loc,
                   maxInFlight, workload, codec, roleRows, permissions,
                   rolePermissions, config, storeUp, cacheUp>>

(* Any role/permission graph over a few roles and permissions, one user with
   the default role *)
RbacInit ==
    /\ maxInFlight = 0
    /\ \E wl \in {Offer({"u1"}, {}, {}, {}, 0, 0, 0)} : InitStore(wl)
    /\ roleRows \in {rs \in SUBSET AllRoleNames : RoleNames \subseteq rs}
    /\ permissions \in {ps \in SUBSET PermissionRows : Cardinality(ps) <= MaxPermissions}
    /\ rolePermissions \in [roleRows -> SUBSET {p.name : p \in permissions}]
    /\ answer = NoAnswer
    /\ config = DefaultConfig
    /\ storeUp = TRUE
    /\ cacheUp = TRUE

RbacNext == AssignRole \/ RemoveRole \/ GetUserPermissionsCall \/ HasPermissionCall

RbacSpec == RbacInit /\ [][RbacNext]_vars

----------------------------------------------------------------------------
(* Register, lines 158-202, and assignDefaultRole, lines 372-398 *)

RegisterPasswords == {"Sh0rt!", "longpassword", "Str0ng!Passw0rd"}
RegisterUsernames == {"alice", "bob", "alice@x.com"}
RegisterEmails == {"alice@x.com", "bob@x.com"}

(* validatePassword: the length check is all there is *)
validatePassword(password) ==
    IF Len(password) < config.passwordMinLength
    THEN "password must be at least 8 characters long"
    ELSE ""

(* Count over Model(&User{}): rows not soft-deleted with the username or the
   email *)
CountUsers(username, email) ==
    Cardinality({u \in DOMAIN users :
                    /\ users[u].deletedAt = NULL
                    /\ (users[u].username = username \/ users[u].email = email)})

(* The unique indexes on users.username and users.email *)
UserUniqueViolation(username, email) ==
    \E u \in DOMAIN users : users[u].username = username \/ users[u].email = email

(* BeforeCreate: uuid.New() *)
NewUUID == CHOOSE u \in UserIds : u \notin DOMAIN users

RegisteredUser(u, req) ==
    [NewUser(u, req.password, FALSE) EXCEPT !.username = req.username,
                                            !.email = req.email]

RegisterCount(p) ==
    /\ CanStart(p)
    /\ \E username \in RegisterUsernames, email \in RegisterEmails,
          password \in RegisterPasswords :
        LET l == [Idle EXCEPT !.op = "register",
                              !.req = [username |-> username, email |-> email,
                                       password |-> password]] IN
        IF validatePassword(password) # ""
        THEN /\ pc' = [pc EXCEPT ![p] = "done"]
             /\ loc' = [loc EXCEPT ![p] = Error(l, validatePassword(password))]
        ELSE IF ~storeUp
        THEN /\ pc' = [pc EXCEPT ![p] = "done"]
             /\ loc' = [loc EXCEPT ![p] = Error(l, "failed to check user existence")]
        ELSE IF CountUsers(username, email) > 0
        THEN /\ pc' = [pc EXCEPT ![p] = "done"]
             /\ loc' = [loc EXCEPT ![p] = Error(l, "username or email already exists")]
        ELSE /\ pc' = [pc EXCEPT ![p] = "register_create"]
             /\ loc' = [loc EXCEPT ![p] = l]
    /\ UNCHANGED <<now, users, userRoles, sessions, cache, events, rand, maxInFlight,
                   workload, codec, directory>>

(* Create(user) *)
RegisterCreateUser(p) ==
    /\ pc[p] = "register_create"
    /\ IF UserUniqueViolation(loc[p].req.username, loc[p].req.email)
       THEN /\ pc' = [pc EXCEPT ![p] = "done"]
            /\ loc' = [loc EXCEPT ![p] = Error(@, "failed to create user")]
            /\ UNCHANGED <<users, userRoles>>
       ELSE LET user == RegisteredUser(NewUUID, loc[p].req) IN
            /\ users' = users @@ (user.id :> user)
            /\ userRoles' = userRoles @@ (user.id :> {})
            /\ pc' = [pc EXCEPT ![p] = "register_role"]
            /\ loc' = [loc EXCEPT ![p].user = <<user>>]
    /\ UNCHANGED <<now, sessions, cache, events, rand, maxInFlight, workload, codec,
                   directory>>

(* assignDefaultRole: Where("name = ?", "user").First(&role) *)
RegisterFindRole(p) ==
    /\ pc[p] = "register_role"
    /\ pc' = [pc EXCEPT ![p] = IF "user" \in roleRows THEN "register_assign"
                               ELSE "register_create_role"]
    /\ UNCHANGED <<now, users, userRoles, sessions, cache, events, rand, loc,
                   maxInFlight, workload, codec, directory>>

(* assignDefaultRole: Create(&role) under the unique index on roles.name *)
RegisterCreateRole(p) ==
    /\ pc[p] = "register_create_role"
    /\ IF "user" \in roleRows
       THEN /\ pc' = [pc EXCEPT ![p] = "done"]
            /\ loc' = [loc EXCEPT ![p].res = [NoResponse EXCEPT
                                                !.err = "failed to assign default role"]]
            /\ UNCHANGED <<roleRows, rolePermissions>>
       ELSE /\ roleRows' = roleRows \cup {"user"}
            /\ rolePermissions' = rolePermissions @@ ("user" :> {})
            /\ pc' = [pc EXCEPT ![p] = "register_assign"]
            /\ loc' = loc
    /\ UNCHANGED <<now, users, userRoles, sessions, cache, events, rand, maxInFlight,
                   workload, codec, permissions, answer, config, storeUp, cacheUp>>

(* assignDefaultRole: Create(userRole); Register returns the user *)
RegisterAssign(p) ==
    /\ pc[p] = "register_assign"
    /\ userRoles' = [userRoles EXCEPT ![loc[p].user[1].id] = @ \cup {"user"}]
    /\ pc' = [pc EXCEPT ![p] = "done"]
    /\ UNCHANGED <<now, users, sessions, cache, events, rand, loc, maxInFlight,
                   workload, codec, directory>>

(* Registrations, two at a time, into a store without users, with or without
   the role "user", under the default password policy or none *)
Configs ==
    {DefaultConfig,
     [DefaultConfig EXCEPT !.passwordRequireUpper = FALSE, !.passwordRequireLower = FALSE,
                           !.passwordRequireDigit = FALSE, !.passwordRequireSpecial = FALSE]}

RegInit ==
    /\ maxInFlight = Cardinality(Procs)
    /\ \E wl \in {Offer({}, {}, {}, {}, 0, 0, 0)} : InitStore(wl)
    /\ roleRows \in {{"admin"}, {"admin", "user"}}
    /\ permissions = PermissionRows
    /\ rolePermissions = [r \in roleRows |-> IF r = "admin" THEN {"domain.create"} ELSE {}]
    /\ answer = NoAnswer
    /\ config \in Configs
    /\ storeUp = TRUE
    /\ cacheUp = TRUE

RegNext ==
    \E p \in Procs :
        \/ RegisterCount(p)
        \/ RegisterCreateUser(p)
        \/ RegisterFindRole(p)
        \/ RegisterCreateRole(p)
        \/ RegisterAssign(p)

RegSpec == RegInit /\ [][RegNext]_vars

----------------------------------------------------------------------------
(* The relational store does not answer: every request fails at its first
   round trip, with the error its handler gives that failure *)
OutageInit ==
    /\ maxInFlight = Cardinality(Procs)
    /\ \E wl \in {[Offer({"u1"}, {"alice", "nobody"}, Passwords, {""}, 0, 0, 0)
                     EXCEPT !.twoFactor = {FALSE}]} : InitStore(wl)
    /\ roleRows = RoleNames
    /\ permissions = {}
    /\ rolePermissions = [r \in RoleNames |-> {}]
    /\ answer = NoAnswer
    /\ config = DefaultConfig
    /\ storeUp = FALSE
    /\ cacheUp = TRUE

OutageNext ==
    \E p \in Procs :
        \/ LoginFindUser(p)
        \/ RefreshFindSession(p)
        \/ LogoutRevoke(p)
        \/ RegisterCount(p)

OutageSpec == OutageInit /\ [][OutageNext]_vars

----------------------------------------------------------------------------
(* The cache does not answer: every handler fails at its cache round trip,
   after its writes to the relational store *)
CacheOutageInit ==
    /\ maxInFlight = 1
    /\ \E wl \in {[Offer({"u1"}, {"alice", "nobody"}, Passwords, {""}, 1, MaxSessions, 1)
                     EXCEPT !.twoFactor = {FALSE}]} : InitStore(wl)
    /\ roleRows = RoleNames
    /\ permissions = {}
    /\ rolePermissions = [r \in RoleNames |-> {}]
    /\ answer = NoAnswer
    /\ config = DefaultConfig
    /\ storeUp = TRUE
    /\ cacheUp = FALSE

CacheOutageSpec == CacheOutageInit /\ [][Next]_vars

(* Concurrent logins of a user one failed login short of the lockout, over
   the time a lockout takes to elapse *)
RelockInit ==
    /\ maxInFlight = Cardinality(Procs)
    /\ \E wl \in {[Offer({"u1"}, {"alice"}, Passwords, {""}, MaxFailedLogins, 1, LockoutDuration)
                     EXCEPT !.counts = {LockThreshold - 1}, !.twoFactor = {FALSE}]} : InitStore(wl)
    /\ InitDirectory

(* Clients that only log in *)
LoginNext ==
    \/ \E p \in Procs :
        \/ LoginFindUser(p)
        \/ LoginIncrementFailed(p)
        \/ LoginSecurityEvent(p)
        \/ LoginReset(p)
        \/ LoginCreateSession(p)
        \/ LoginSaveSession(p)
        \/ LoginStoreSession(p)
    \/ Tick

RelockSpec == RelockInit /\ [][LoginNext]_vars

(* Two clients that send one login each, at the same time: both with a wrong
   password for one user whose counter is c, or each for one of two users *)
PairWorkloads ==
    {[Offer({"u1"}, {"alice"}, {"hunter2"}, {""}, MaxFailedLogins, 0, 0)
        EXCEPT !.counts = {c}, !.twoFactor = {FALSE}] : c \in 0..(LockThreshold - 1)}
    \cup {[Offer(UserIds, {"alice", "bob"}, Passwords, {""}, 0, MaxSessions, 0)
             EXCEPT !.twoFactor = {FALSE}]}

PairInit ==
    /\ maxInFlight = Cardinality(Procs)
    /\ \E wl \in PairWorkloads : InitStore(wl)
    /\ InitDirectory

LoginOnce(p) == pc[p] = "idle" /\ LoginFindUser(p)

PairNext ==
    \E p \in Procs :
        \/ LoginOnce(p)
        \/ LoginIncrementFailed(p)
        \/ LoginSecurityEvent(p)
        \/ LoginReset(p)
        \/ LoginCreateSession(p)
        \/ LoginSaveSession(p)
        \/ LoginStoreSession(p)

PairSpec == PairInit /\ [][PairNext]_vars

-----------------------------------------------------------------------------
(* UserService, user.go: the calls that change a user row while the
   authentication service runs. Each is one step; a call that returns an
   error changes nothing. *)

(* First(&user): the row when it is not soft-deleted *)
FirstUser(userID) == userID \in DOMAIN users /\ users[userID].deletedAt = NULL

(* ChangePassword: Update("password_hash", ...) after the current password
   matched *)
ChangePassword ==
    /\ \E userID \in DOMAIN users, currentPassword \in Passwords, newPassword \in Passwords :
        users' = IF /\ FirstUser(userID)
                    /\ CompareHashAndPassword(users[userID].passwordHash, currentPassword)
                 THEN [users EXCEPT ![userID].passwordHash = GenerateFromPassword(newPassword)]
                 ELSE users
    /\ UNCHANGED <<now, userRoles, sessions, cache, events, rand, pc, loc, maxInFlight, workload, codec, directory>>

(* Updates(map) on Model(&User{}) Where id: the two columns, of a row that
   is not soft-deleted *)
EnableTwoFactor ==
    /\ \E userID \in DOMAIN users :
        users' = IF FirstUser(userID)
                 THEN [users EXCEPT ![userID].isTwoFactorEnabled = TRUE,
                                    ![userID].twoFactorSecret = "JBSWY3DP"]
                 ELSE users
    /\ UNCHANGED <<now, userRoles, sessions, cache, events, rand, pc, loc, maxInFlight, workload, codec, directory>>

DisableTwoFactor ==
    /\ \E userID \in DOMAIN users :
        users' = IF FirstUser(userID)
                 THEN [users EXCEPT ![userID].isTwoFactorEnabled = FALSE,
                                    ![userID].twoFactorSecret = ""]
                 ELSE users
    /\ UNCHANGED <<now, userRoles, sessions, cache, events, rand, pc, loc, maxInFlight, workload, codec, directory>>

(* The update maps an administrator sends: deactivation and reactivation *)
UserUpdates == {[isActive |-> FALSE], [isActive |-> TRUE]}

(* UpdateUser: First, then Updates(updates) of the named columns *)
UpdateUser ==
    /\ \E userID \in DOMAIN users, updates \in UserUpdates :
        users' = IF FirstUser(userID)
                 THEN [users EXCEPT ![userID] =
                          [f \in DOMAIN @ |-> IF f \in DOMAIN updates THEN updates[f] ELSE @[f]]]
                 ELSE users
    /\ UNCHANGED <<now, userRoles, sessions, cache, events, rand, pc, loc, maxInFlight, workload, codec, directory>>

(* DeleteUser: Delete(&User{}) sets deleted_at of the row; sessions are not
   touched *)
DeleteUser ==
    /\ \E userID \in DOMAIN users :
        users' = IF FirstUser(userID)
                 THEN [users EXCEPT ![userID].deletedAt = <<now>>]
                 ELSE users
    /\ UNCHANGED <<now, userRoles, sessions, cache, events, rand, pc, loc, maxInFlight, workload, codec, directory>>

(* One client of the authentication service and an administrator *)
AdminInit ==
    /\ maxInFlight = 1
    /\ \E wl \in {[Offer({"u1"}, {"alice"}, Passwords, {""}, LockThreshold, 1, 1)
                     EXCEPT !.twoFactor = {FALSE}]} : InitStore(wl)
    /\ InitDirectory

AdminNext ==
    \/ Next
    \/ ChangePassword
    \/ EnableTwoFactor
    \/ DisableTwoFactor
    \/ UpdateUser
    \/ DeleteUser

AdminSpec == AdminInit /\ [][AdminNext]_vars

----------------------------------------------------------------------------
(* Vocabulary of the properties *)

Started(p) == pc[p] \in {"idle", "done"} /\ loc'[p] # loc[p]

Returned(p) == pc[p] # "done" /\ pc'[p] = "done"

Left(p, position) == pc[p] = position /\ pc'[p] # position

LockoutInFuture(u) == users[u].lockedUntil # NULL /\ users[u].lockedUntil[1] > now

SessionsOf(rows, u) == {i \in 1..Len(rows) : rows[i].userID = u}

LoginOf(l, u) == l.op = "login" /\ l.user # <<>> /\ l.user[1].id = u

(* C1: while a user's lockout-until is in the future no login for that user
   succeeds: a login that finds the user locked returns "account is locked"
   with the unlock time, and no step of any login, however the logins
   interleave, changes the user's failed-login counter or lockout-until,
   adds a session of the user or returns success for the user. *)
C1_LockedNeverAuthenticates ==
    [][\A u \in DOMAIN users : LockoutInFuture(u) =>
        /\ users'[u].failedLoginCount = users[u].failedLoginCount
        /\ users'[u].lockedUntil = users[u].lockedUntil
        /\ SessionsOf(sessions', u) = SessionsOf(sessions, u)
        /\ \A p \in Procs :
            /\ (Started(p) /\ LoginOf(loc'[p], u)) =>
                  /\ pc'[p] = "done"
                  /\ loc'[p].res.err = "account is locked"
                  /\ loc'[p].res.lockedUntil = users[u].lockedUntil
            /\ (Returned(p) /\ LoginOf(loc'[p], u)) => loc'[p].res.err # ""]_vars

(* C2: for an active, unlocked user a login with a wrong password goes on to
   incrementFailedLogin, whose write raises the stored counter by exactly one
   and, when the counter reaches the threshold of 5, sets lockout-until to
   now + 30 minutes, and the call returns "invalid credentials"; so with one
   request at a time the account is locked exactly when the counter has
   reached 5. *)
WrongPassword(u, l) == users[u].passwordHash # GenerateFromPassword(l.req.password)

C2_FailedLoginCounted ==
    /\ [](\A u \in DOMAIN users :
            users[u].lockedUntil # NULL <=> users[u].failedLoginCount >= LockThreshold)
    /\ [][\A p \in Procs :
            /\ \A u \in DOMAIN users :
                (/\ Started(p) /\ LoginOf(loc'[p], u)
                 /\ users[u].isActive /\ ~LockoutInFuture(u) /\ WrongPassword(u, loc'[p]))
                => pc'[p] = "login_increment"
            /\ Left(p, "login_increment") =>
                LET u == loc[p].user[1].id IN
                /\ pc'[p] = "login_event"
                /\ users'[u].failedLoginCount = users[u].failedLoginCount + 1
                /\ users'[u].lockedUntil =
                      IF users'[u].failedLoginCount >= LockThreshold
                      THEN <<now + LockoutDuration>> ELSE users[u].lockedUntil
                /\ users'[u].failedLoginCount >= LockThreshold =>
                      users'[u].lockedUntil[1] > now
            /\ Left(p, "login_event") =>
                /\ pc'[p] = "done"
                /\ loc'[p].res.err = "invalid credentials"]_vars

C2_Witness ==
    \E p \in Procs, u \in DOMAIN users :
        /\ pc[p] = "done" /\ LoginOf(loc[p], u)
        /\ loc[p].res.err = "invalid credentials"
        /\ users[u].failedLoginCount = LockThreshold
        /\ LockoutInFuture(u)

(* C3: a login that returns success leaves its user with failed-login counter
   0, no lockout-until, last-login time and address stamped, and exactly one
   more session row than when the request arrived: the user's own, unrevoked,
   expiring one refresh TTL after its creation, and holding the refresh token
   that the call returned. *)
SucceededLogin(p) == pc[p] = "done" /\ loc[p].op = "login" /\ loc[p].res.err = ""

C3_SuccessfulLogin ==
    \A p \in Procs : SucceededLogin(p) =>
        LET u == loc[p].user[1].id
            id == loc[p].session[1].id
        IN  /\ users[u].failedLoginCount = 0
            /\ users[u].lockedUntil = NULL
            /\ users[u].lastLoginAt # NULL
            /\ users[u].lastLoginIP = loc[p].req.ip
            /\ Len(sessions) = loc[p].start + 1
            /\ id = Len(sessions)
            /\ users[u].lastLoginAt[1] <= sessions[id].createdAt
            /\ sessions[id].createdAt <= now
            /\ sessions[id].userID = u
            /\ sessions[id].revokedAt = NULL
            /\ sessions[id].expiresAt = sessions[id].createdAt + RefreshExpiration
            /\ loc[p].res.refreshToken # 0
            /\ sessions[id].refreshToken = loc[p].res.refreshToken
            /\ loc[p].res.expiresAt = <<sessions[id].expiresAt>>

C3_Witness ==
    \E p \in Procs : SucceededLogin(p) /\ loc[p].start = 1 /\ now > 0

(* C4, as claimed: for every active, unlocked user a login with the correct
   password succeeds, and its access token validates before its expiry to
   claims with the user's id, the user's role names and the id of the session
   row that the login created. *)
CorrectPassword(u, l) == users[u].passwordHash = GenerateFromPassword(l.req.password)

TokenOfLogin(p) ==
    SucceededLogin(p) =>
        LET u == loc[p].user[1].id
            id == loc[p].session[1].id
            token == loc[p].res.accessToken
        IN  /\ token # <<>>
            /\ token = sessions[id].token
            /\ token[1].claims.iat <= now
            /\ \A t \in 0..(MaxTime + JWTExpiration) :
                (token[1].claims.iat <= t /\ t < token[1].claims.iat + JWTExpiration) =>
                    LET res == ValidateToken(token, t) IN
                    /\ res.err = ""
                    /\ res.claims[1].user_id = u
                    /\ res.claims[1].roles = userRoles[u]
                    /\ res.claims[1].session_id = id
                    /\ id = Len(sessions)

LoginGoesThrough(p) ==
    (loc[p].op = "login"
        /\ pc[p] \in {"login_reset", "login_create", "login_save", "login_cache"}
        /\ pc'[p] = "done")
    => loc'[p].res.err = ""

C4_EveryCorrectLoginSucceeds ==
    /\ [](\A p \in Procs : TokenOfLogin(p))
    /\ [][\A p \in Procs :
            /\ LoginGoesThrough(p)
            /\ \A u \in DOMAIN users :
                (/\ Started(p) /\ LoginOf(loc'[p], u)
                 /\ users[u].isActive /\ ~LockoutInFuture(u) /\ CorrectPassword(u, loc'[p]))
                => pc'[p] = "login_reset"]_vars

(* C4, amended: the same for every active, unlocked user, the correct password
   and, when two-factor is enabled for the user, a non-empty code that
   verifyTwoFactorCode accepts. *)
TwoFactorSatisfied(u, l) ==
    users[u].isTwoFactorEnabled =>
        /\ l.req.code # ""
        /\ verifyTwoFactorCode(users[u].twoFactorSecret, l.req.code)

C4_CorrectLoginSucceeds ==
    /\ [](\A p \in Procs : TokenOfLogin(p))
    /\ [][\A p \in Procs :
            /\ LoginGoesThrough(p)
            /\ \A u \in DOMAIN users :
                (/\ Started(p) /\ LoginOf(loc'[p], u)
                 /\ users[u].isActive /\ ~LockoutInFuture(u) /\ CorrectPassword(u, loc'[p])
                 /\ TwoFactorSatisfied(u, loc'[p]))
                => pc'[p] = "login_reset"]_vars

C4_Witness ==
    \E p \in Procs :
        /\ SucceededLogin(p)
        /\ loc[p].user[1].isTwoFactorEnabled
        /\ ValidateToken(loc[p].res.accessToken, now).err = ""
        /\ ValidateToken(loc[p].res.accessToken, now).claims[1].session_id = 2

(* C5: a refresh whose token belongs to no session row that is unrevoked and
   unexpired (now < expiry) returns "invalid refresh token" and changes
   neither the session rows nor the cache; a refresh whose token belongs to
   such a row goes on with that row. *)
Usable(session, t) == session.revokedAt = NULL /\ t < session.expiresAt

UsableFor(refreshToken) ==
    {i \in 1..Len(sessions) :
        sessions[i].refreshToken = refreshToken /\ Usable(sessions[i], now)}

C5_RefreshNeedsUsableSession ==
    [][\A p \in Procs : (Started(p) /\ loc'[p].op = "refresh") =>
        IF UsableFor(loc'[p].arg) = {}
        THEN /\ pc'[p] = "done"
             /\ loc'[p].res.err = "invalid refresh token"
             /\ sessions' = sessions
             /\ cache' = cache
        ELSE /\ pc'[p] = "refresh_save"
             /\ loc'[p].session[1].id \in UsableFor(loc'[p].arg)]_vars

C5_Witness ==
    \E p \in Procs, i \in 1..Len(sessions) :
        /\ pc[p] = "done" /\ loc[p].op = "refresh"
        /\ loc[p].res.err = "invalid refresh token"
        /\ sessions[i].refreshToken = loc[p].arg
        /\ sessions[i].revokedAt # NULL
        /\ now < sessions[i].expiresAt

(* C6: with one request at a time, a refresh adds no session row and changes
   no row but its own, of which only the access token and the last-used time
   change (id, user, expiry, refresh token and revocation stay); the refresh
   token it returns is the one presented and the one stored, the access token
   it returns is the one stored. *)
SameButTokenAndLastUsed(after, before) ==
    [after EXCEPT !.token = before.token, !.lastUsedAt = before.lastUsedAt] = before

C6_RefreshKeepsSession ==
    /\ [](\A p \in Procs :
            (pc[p] = "done" /\ loc[p].op = "refresh" /\ loc[p].res.err = "") =>
                LET id == loc[p].session[1].id IN
                /\ Len(sessions) = loc[p].start
                /\ loc[p].res.refreshToken = loc[p].arg
                /\ sessions[id].refreshToken = loc[p].arg
                /\ sessions[id].token = loc[p].res.accessToken
                /\ loc[p].res.expiresAt = <<sessions[id].expiresAt>>)
    /\ [][\A p \in Procs :
            (loc'[p].op = "refresh" /\ pc'[p] # pc[p]) =>
                /\ Len(sessions') = Len(sessions)
                /\ \A i \in 1..Len(sessions) :
                    IF loc'[p].session # <<>> /\ i = loc'[p].session[1].id
                    THEN SameButTokenAndLastUsed(sessions'[i], sessions[i])
                    ELSE sessions'[i] = sessions[i]]_vars

C6_Witness ==
    \E p \in Procs :
        /\ pc[p] = "done" /\ loc[p].op = "refresh" /\ loc[p].res.err = ""
        /\ sessions[loc[p].session[1].id].lastUsedAt > sessions[loc[p].session[1].id].createdAt
        /\ sessions[loc[p].session[1].id].token[1].claims.iat
              > sessions[loc[p].session[1].id].createdAt

(* C7: logout sets the revocation timestamp of its session and deletes the
   session's cache entry, and a logout of a session that is already revoked
   leaves the session rows as they are. *)
C7_LogoutIdempotent ==
    [][\A p \in Procs :
        /\ (Started(p) /\ loc'[p].op = "logout" /\ loc'[p].arg <= Len(sessions)) =>
              /\ sessions'[loc'[p].arg].revokedAt # NULL
              /\ sessions[loc'[p].arg].revokedAt # NULL => sessions' = sessions
        /\ Left(p, "logout_cache") =>
              /\ cache'[loc[p].arg] = <<>>
              /\ pc'[p] = "done"
              /\ loc'[p].res.err = ""]_vars

(* C8: a token issued for a user, a session id and a role list validates, at
   every time from its issue to before issue + TTL, to claims that are the
   embedded input, and fails to validate at every time from issue + TTL on. *)
C8_TokenRoundTrip ==
    (codec.phase = "validated" /\ codec.forged = <<>>) =>
        IF codec.issuedAt <= codec.at /\ codec.at < codec.issuedAt + JWTExpiration
        THEN /\ codec.res.err = ""
             /\ codec.res.claims[1].user_id = codec.user[1].id
             /\ codec.res.claims[1].username = codec.user[1].username
             /\ codec.res.claims[1].email = codec.user[1].email
             /\ codec.res.claims[1].roles = codec.roles
             /\ codec.res.claims[1].session_id = codec.sessionID
        ELSE codec.res.err # "" /\ codec.res.claims = <<>>

C8_Witness ==
    /\ codec.phase = "validated" /\ codec.forged = <<>>
    /\ codec.res.err = ""
    /\ codec.roles = RoleNames
    /\ codec.at = MaxTime

(* C9: validation fails for every token that issue did not produce: one whose
   claims were altered, one signed with another secret, one whose header
   names another signing scheme, one signed under another scheme. *)
C9_ForgedTokenRejected ==
    (codec.phase = "validated" /\ codec.forged # <<>>) => codec.res.err # ""

(* C10: what ValidateToken answers for the access token of a session row
   depends on the token and the clock alone: whether or not the row is revoked
   or cached, the token is accepted from its issue to before issue + TTL, with
   the row's id and user in its claims, and rejected from then on. *)
C10_ValidationIgnoresSessions ==
    \A i \in 1..Len(sessions) : sessions[i].token # <<>> =>
        LET token == sessions[i].token
            iat == token[1].claims.iat
        IN  /\ iat <= now
            /\ \A t \in 0..(MaxTime + JWTExpiration) :
                IF iat <= t /\ t < iat + JWTExpiration
                THEN /\ ValidateToken(token, t).err = ""
                     /\ ValidateToken(token, t).claims[1].session_id = i
                ELSE ValidateToken(token, t).err # ""

C10_Witness ==
    \E i \in 1..Len(sessions), p \in Procs :
        /\ pc[p] = "done" /\ loc[p].op = "logout" /\ loc[p].arg = i
        /\ sessions[i].revokedAt # NULL
        /\ cache[i] = <<>>
        /\ ValidateToken(sessions[i].token, now).err = ""

(* C11: hasPermission(u, resource, action) answers true exactly when u is
   assigned a role that grants a permission with that resource and action, or
   u is assigned the role named "admin". *)
Granted(u, resource, action) ==
    \E r \in userRoles[u], p \in permissions :
        p.name \in rolePermissions[r] /\ p.resource = resource /\ p.action = action

C11_AdminBypass ==
    (answer.op = "HasPermission" /\ answer.user \in DOMAIN userRoles) =>
        (answer.allowed <=>
            \/ Granted(answer.user, answer.resource, answer.action)
            \/ "admin" \in userRoles[answer.user])

(* C12: permissionsOf(user) is the union over the roles now assigned to the
   user of the permissions each grants, each permission once, whatever
   AssignRole and RemoveRole calls came before; AssignRole adds the role when
   the user and the role exist and RemoveRole takes it away. *)
C12_PermissionsAreUnion ==
    /\ [](answer.op = "GetUserPermissions" /\ answer.user \in DOMAIN userRoles =>
            /\ DOMAIN answer.permissions =
                  {p \in permissions :
                      \E r \in userRoles[answer.user] : p.name \in rolePermissions[r]}
            /\ \A p \in DOMAIN answer.permissions : answer.permissions[p] = 1)
    /\ [][/\ (answer'.op = "AssignRole" /\ answer'.err = "") =>
                userRoles' = [userRoles EXCEPT ![answer'.user] = @ \cup {answer'.role}]
          /\ (answer'.op = "AssignRole" /\ answer'.err # "") => userRoles' = userRoles
          /\ (answer'.op = "RemoveRole" /\ answer'.user \in DOMAIN userRoles) =>
                userRoles' = [userRoles EXCEPT ![answer'.user] = @ \ {answer'.role}]]_vars

C12_Witness ==
    /\ answer.op = "GetUserPermissions"
    /\ answer.user \in DOMAIN userRoles
    /\ "user" \notin userRoles[answer.user]
    /\ \E p \in DOMAIN answer.permissions :
          Cardinality({r \in userRoles[answer.user] : p.name \in rolePermissions[r]}) = 2
    /\ \E p \in permissions :
          p.name \in rolePermissions["user"] /\ p \notin DOMAIN answer.permissions

(* C13: for a user with two-factor enabled who presents the correct
   password, a login without a code returns "two-factor code required" and a
   login with a code that is not the one-time password of the user's secret
   returns "invalid two-factor code"; neither adds a session nor changes the
   user's row. *)
TOTP(secret, t) == IF secret = "" THEN "" ELSE "123456"

C13_TwoFactorEnforced ==
    [][\A p \in Procs, u \in DOMAIN users :
        (/\ Started(p) /\ LoginOf(loc'[p], u)
         /\ users[u].isActive /\ ~LockoutInFuture(u) /\ CorrectPassword(u, loc'[p])
         /\ users[u].isTwoFactorEnabled
         /\ loc'[p].req.code # TOTP(users[u].twoFactorSecret, now))
        => /\ pc'[p] = "done"
           /\ loc'[p].res.err = IF loc'[p].req.code = ""
                                THEN "two-factor code required"
                                ELSE "invalid two-factor code"
           /\ sessions' = sessions
           /\ users' = users]_vars

(* C14: a login whose identifier matches no user and a login of an active,
   unlocked user with a wrong password return the same response, the error
   "invalid credentials" and nothing else. *)
InvalidCredentials == [NoResponse EXCEPT !.err = "invalid credentials"]

C14_NoIdentityEnumeration ==
    [][\A p \in Procs :
        /\ (/\ Started(p) /\ loc'[p].op = "login"
            /\ FindUser(loc'[p].req.username) = {})
           => pc'[p] = "done" /\ loc'[p].res = InvalidCredentials
        /\ \A u \in DOMAIN users :
            (/\ Started(p) /\ LoginOf(loc'[p], u)
             /\ users[u].isActive /\ ~LockoutInFuture(u) /\ WrongPassword(u, loc'[p]))
            => pc'[p] = "login_increment"
        /\ Left(p, "login_increment") => pc'[p] = "login_event"
        /\ Left(p, "login_event") => pc'[p] = "done" /\ loc'[p].res = InvalidCredentials]_vars

C14_Witness ==
    \E p \in Procs, u \in DOMAIN users :
        /\ pc[p] = "done" /\ loc[p].op = "login"
        /\ loc[p].user = <<>>
        /\ loc[p].req.username = "nobody"
        /\ loc[p].res = InvalidCredentials
        /\ users[u].failedLoginCount > 0

(* C18: the security-event log only grows; a login failing on a wrong
   password appends one record, and one more when that login triggers the
   lockout; no other step appends. *)
TriggersLockout(user, t) ==
    user.failedLoginCount >= LockThreshold /\ user.lockedUntil = <<t + LockoutDuration>>

C18_EventPerFailedLogin ==
    [][\A p \in Procs :
        /\ Left(p, "login_event") =>
            LET u == loc[p].user[1].id IN
            events' = [events EXCEPT ![u] =
                          @ + 1 + (IF TriggersLockout(loc[p].user[1], now) THEN 1 ELSE 0)]
        /\ (\A q \in Procs : ~Left(q, "login_event")) => events' = events]_vars

(* C19: a failed write of the security event changes nothing of the login's
   outcome: the login that failed on a wrong password returns "invalid
   credentials", and its counter and lockout-until are those that
   incrementFailedLogin stored, also when no event row was written; a login
   that passes its checks never reaches the event write. *)
C19_EventFailureSwallowed ==
    /\ [][\A p \in Procs :
            /\ Left(p, "login_event") =>
                /\ pc'[p] = "done"
                /\ loc'[p].res.err = "invalid credentials"
                /\ users' = users
                /\ sessions' = sessions
                /\ loc'[p].user = loc[p].user
            /\ Left(p, "login_reset") => pc'[p] = "login_create" /\ events' = events]_vars
    /\ [](\A p \in Procs : pc[p] \in {"login_reset", "login_create", "login_save",
                                       "login_cache"} =>
            CompareHashAndPassword(loc[p].user[1].passwordHash, loc[p].req.password))

C19_Witness ==
    \E p \in Procs :
        /\ pc[p] = "done" /\ loc[p].op = "login"
        /\ loc[p].res.err = "invalid credentials"
        /\ loc[p].user # <<>>
        /\ users[loc[p].user[1].id].failedLoginCount = LockThreshold
        /\ users[loc[p].user[1].id].lockedUntil = <<now + LockoutDuration>>
        /\ events[loc[p].user[1].id] = 0

(* C15: no two users share a username or an email; a register whose username
   or email belongs to an existing user returns "username or email already
   exists" and creates no user; and a register that fails after its password
   was accepted, as the loser of two concurrent registrations of one identity
   does, fails with that same error. *)
DuplicateIdentity == "username or email already exists"

C15_DuplicateIdentity ==
    /\ [](\A u, v \in DOMAIN users :
            u # v => users[u].username # users[v].username /\ users[u].email # users[v].email)
    /\ [][\A p \in Procs :
            /\ (/\ Started(p) /\ loc'[p].op = "register"
                /\ validatePassword(loc'[p].req.password) = ""
                /\ UserUniqueViolation(loc'[p].req.username, loc'[p].req.email))
               => /\ pc'[p] = "done"
                  /\ loc'[p].res.err = DuplicateIdentity
                  /\ users' = users
            /\ (Left(p, "register_create") /\ pc'[p] = "done")
               => loc'[p].res.err = DuplicateIdentity /\ users' = users]_vars

(* C16: every user row that a returned register persisted is active and has
   the role "user", whether the register returned success or an error; a
   user whose only role is "user" has no permission to create a domain. *)
C16_DefaultRoleAssigned ==
    \A p \in Procs :
        (pc[p] = "done" /\ loc[p].op = "register" /\ loc[p].user # <<>>) =>
            LET u == loc[p].user[1].id IN
            /\ u \in DOMAIN users
            /\ users[u].isActive
            /\ "user" \in roleRows
            /\ "user" \in userRoles[u]
            /\ ~HasPermission(u, "domain", "create")

(* C17: register returns the weak-password error, creating no user, exactly
   when the password violates the configured policy: shorter than the
   minimum length, or lacking a character class whose requirement is on. *)
HasUpper(password) == password \in {"Sh0rt!", "Str0ng!Passw0rd"}
HasLower(password) == password \in {"Sh0rt!", "longpassword", "Str0ng!Passw0rd"}
HasDigit(password) == password \in {"Sh0rt!", "Str0ng!Passw0rd"}
HasSpecial(password) == password \in {"Sh0rt!", "Str0ng!Passw0rd"}

ViolatesPolicy(password, cfg) ==
    \/ Len(password) < cfg.passwordMinLength
    \/ cfg.passwordRequireUpper /\ ~HasUpper(password)
    \/ cfg.passwordRequireLower /\ ~HasLower(password)
    \/ cfg.passwordRequireDigit /\ ~HasDigit(password)
    \/ cfg.passwordRequireSpecial /\ ~HasSpecial(password)

WeakPassword == "password must be at least 8 characters long"

C17_PasswordPolicy ==
    [][\A p \in Procs :
        (Started(p) /\ loc'[p].op = "register") =>
            /\ ViolatesPolicy(loc'[p].req.password, config) <=>
                  (pc'[p] = "done" /\ loc'[p].res.err = WeakPassword)
            /\ users' = users]_vars

(* C20: while the store does not answer, a login is never answered "invalid
   credentials" and a refresh is never answered "invalid refresh token". *)
C20_OutageIsNotACredentialError ==
    ~storeUp =>
        \A p \in Procs : pc[p] = "done" =>
            /\ loc[p].op = "login" => loc[p].res.err # "invalid credentials"
            /\ loc[p].op = "refresh" => loc[p].res.err # "invalid refresh token"

(* C21: whenever no request is in flight, a session id with a live cache
   entry has a session row that is unrevoked and whose user is the cached
   user id; so after a completed logout the session has no cache entry,
   however logins, refreshes and logouts interleaved. *)
Quiescent == \A p \in Procs : pc[p] \in {"idle", "done"}

C21_CacheAgreesWithStore ==
    Quiescent =>
        \A i \in DOMAIN cache :
            (cache[i] # <<>> /\ cache[i][1].until > now) =>
                /\ i <= Len(sessions)
                /\ sessions[i].revokedAt = NULL
                /\ sessions[i].userID = cache[i][1].user

(* C22: a login that returns an error leaves as many session rows as it
   found, also when it fails at token signing, at the session update or at the
   cache write after its row was inserted; only a login that returns success
   has added a row, exactly one. *)
C22_SessionPerSuccessfulLogin ==
    [][\A p \in Procs :
        /\ (Returned(p) /\ loc'[p].op = "login" /\ loc'[p].res.err # "")
           => Len(sessions') = loc'[p].start
        /\ (Returned(p) /\ loc'[p].op = "login" /\ loc'[p].res.err = "")
           => Len(sessions') = loc'[p].start + 1
        /\ (pc'[p] # pc[p] /\ loc'[p].op # "login") => Len(sessions') = Len(sessions)]_vars

(* C24: once a logout of a session has returned without error, the session's
   revocation timestamp stays set, also when a refresh that had read the row
   before the logout writes it afterwards; a refresh that starts with the
   token of such a session fails. *)
LoggedOut(i) ==
    /\ i <= Len(sessions)
    /\ sessions[i].revokedAt # NULL
    /\ \E q \in Procs : /\ pc[q] = "done" /\ loc[q].op = "logout"
                        /\ loc[q].arg = i /\ loc[q].res.err = ""

C24_RevocationIsPermanent ==
    [][\A i \in 1..Len(sessions) : LoggedOut(i) =>
        /\ sessions'[i].revokedAt # NULL
        /\ \A p \in Procs :
            (Started(p) /\ loc'[p].op = "refresh" /\ loc'[p].arg = sessions[i].refreshToken)
            => pc'[p] = "done" /\ loc'[p].res.err = "invalid refresh token"]_vars

(* C26: a refresh with the empty string as its token fails with "invalid
   refresh token" in every state, also while a login is between the insert of
   its session row and the save of its tokens. *)
C26_EmptyRefreshTokenRejected ==
    [][\A p \in Procs :
        (Started(p) /\ loc'[p].op = "refresh" /\ loc'[p].arg = 0)
        => pc'[p] = "done" /\ loc'[p].res.err = "invalid refresh token"]_vars

(* C28: the failed-login counter is never changed by the passing of time,
   so the elapsing of lockout-until does not reset it: a wrong-password login
   of a user whose counter is already 5 or more and whose lockout has elapsed
   is counted, and its write sets lockout-until to now + 30 minutes at once.
   The counter goes down only by the write of a login: a successful login
   resets it to 0, and a failed login stores the value it read plus one. *)
C28_CounterNotResetByTime ==
    [][\A u \in DOMAIN users :
        /\ now' # now => users'[u] = users[u]
        /\ users'[u].failedLoginCount < users[u].failedLoginCount =>
            \E p \in Procs :
                /\ loc[p].user # <<>> /\ loc[p].user[1].id = u
                /\ \/ Left(p, "login_reset") /\ users'[u].failedLoginCount = 0
                   \/ /\ Left(p, "login_increment")
                      /\ users'[u].failedLoginCount = loc[p].user[1].failedLoginCount + 1
        /\ \A p \in Procs :
            /\ (/\ Started(p) /\ LoginOf(loc'[p], u)
                /\ users[u].isActive /\ WrongPassword(u, loc'[p])
                /\ users[u].failedLoginCount >= LockThreshold
                /\ users[u].failedLoginCount < workload.failed
                /\ users[u].lockedUntil # NULL /\ users[u].lockedUntil[1] <= now)
               => pc'[p] = "login_increment"
            /\ (/\ Left(p, "login_increment") /\ loc[p].user[1].id = u
                /\ loc[p].user[1].failedLoginCount >= LockThreshold)
               => /\ users'[u].lockedUntil = <<now + LockoutDuration>>
                  /\ users'[u].failedLoginCount = loc[p].user[1].failedLoginCount + 1]_vars

(* A user locked a second time, by the one failed login after the first
   lockout had elapsed *)
C28_Witness ==
    \E u \in DOMAIN users :
        /\ users[u].failedLoginCount = LockThreshold + 1
        /\ now >= LockoutDuration
        /\ users[u].lockedUntil = <<now + LockoutDuration>>

(* C28 as stated: the counter goes down only when a successful login resets
   it to 0 *)
C28_CounterResetOnlyBySuccess ==
    [][\A u \in DOMAIN users :
        users'[u].failedLoginCount < users[u].failedLoginCount =>
            /\ users'[u].failedLoginCount = 0
            /\ \E p \in Procs : /\ Left(p, "login_reset")
                                /\ loc[p].user[1].id = u]_vars

(* C30: in every state reached through Register no string is one user's
   username and another user's email, so the username-or-email lookup of a
   login has at most one candidate. *)
C30_IdentifierResolvesToOneUser ==
    /\ \A u, v \in DOMAIN users : u # v => users[u].username # users[v].email
    /\ \A identifier \in RegisterUsernames \cup RegisterEmails :
        Cardinality(FindUser(identifier)) <= 1

(* C23: when two logins with a wrong password for one user whose counter is
   c have run at the same time and both have returned, the stored counter is
   c + 1 or c + 2, and when the counter either of them wrote had reached 5 the
   user's lockout-until is set. *)
StartCount == CHOOSE c \in workload.counts : TRUE

BothReturnedFor(u) ==
    \A p \in Procs : /\ pc[p] = "done" /\ LoginOf(loc[p], u)
                     /\ WrongPassword(u, loc[p])

C23_AtMostOneIncrementLost ==
    \A u \in DOMAIN users : BothReturnedFor(u) =>
        /\ users[u].failedLoginCount \in {StartCount + 1, StartCount + 2}
        /\ (\E p \in Procs : loc[p].user[1].failedLoginCount >= LockThreshold)
           => LockoutInFuture(u)

(* Both failed logins read the counter before either wrote it: one increment
   is lost *)
C23_Witness ==
    \E u \in DOMAIN users :
        /\ BothReturnedFor(u)
        /\ \A p \in Procs : loc[p].res.err = "invalid credentials"
        /\ users[u].failedLoginCount = StartCount + 1

(* C25: when two logins of two distinct users, each with the user's correct
   password, have run at the same time and both have returned, both have
   succeeded and there are two session rows with distinct access tokens and
   distinct refresh tokens. *)
C25_LoginsOfDistinctUsersSucceed ==
    (/\ \A p \in Procs : pc[p] = "done" /\ loc[p].op = "login" /\ loc[p].user # <<>>
     /\ \E p, q \in Procs : loc[p].user[1].id # loc[q].user[1].id
     /\ \A p \in Procs : ~WrongPassword(loc[p].user[1].id, loc[p]))
    => /\ \A p \in Procs : loc[p].res.err = ""
       /\ Len(sessions) = Cardinality(Procs)
       /\ \A i, j \in 1..Len(sessions) :
            i # j => /\ sessions[i].token # sessions[j].token
                     /\ sessions[i].refreshToken # sessions[j].refreshToken

(* C27: the write of a login that failed on a wrong password changes the
   user's failed-login counter and lockout-until and nothing else: password
   hash, active flag, two-factor flag and secret and the role assignments are
   after the write what they were before it, also when ChangePassword,
   EnableTwoFactor, DisableTwoFactor or UpdateUser changed them while the
   login was in flight. *)
C27_FailedLoginWritesCounterOnly ==
    [][\A p \in Procs : Left(p, "login_increment") =>
        LET u == loc[p].user[1].id IN
        /\ users'[u].passwordHash = users[u].passwordHash
        /\ users'[u].isActive = users[u].isActive
        /\ users'[u].isTwoFactorEnabled = users[u].isTwoFactorEnabled
        /\ users'[u].twoFactorSecret = users[u].twoFactorSecret
        /\ userRoles'[u] = userRoles[u]]_vars

(* C29: a refresh with the token of an unrevoked, unexpired session goes on
   and returns a new access token of that session whatever the state of the
   owner: deactivated, locked out or soft-deleted; and a step that changes a
   user row changes no session row and no cache entry. *)
C29_RefreshIgnoresUserState ==
    [][/\ \A p \in Procs :
            /\ (Started(p) /\ loc'[p].op = "refresh" /\ UsableFor(loc'[p].arg) # {})
               => /\ pc'[p] = "refresh_save"
                  /\ loc'[p].session[1].id \in UsableFor(loc'[p].arg)
            /\ Left(p, "refresh_cache") =>
                /\ pc'[p] = "done"
                /\ loc'[p].res.err = ""
                /\ loc'[p].res.accessToken # <<>>
                /\ LET issued == loc'[p].res.accessToken[1].claims.iat
                       validated == ValidateToken(loc'[p].res.accessToken, issued)
                   IN  /\ validated.err = ""
                       /\ validated.claims[1].session_id = loc[p].session[1].id
       /\ users' # users => (sessions' = sessions /\ cache' = cache)]_vars

(* A refresh that returned a token for the session of a user who had been
   soft-deleted when it ran *)
C29_Witness ==
    \E p \in Procs :
        /\ pc[p] = "done" /\ loc[p].op = "refresh" /\ loc[p].res.err = ""
        /\ loc[p].res.accessToken # <<>>
        /\ loc[p].user = <<ZeroUser>>
        /\ users[loc[p].session[1].userID].deletedAt # NULL

====
